---- MODULE Spec2Model ----
(***************************************************************************)
(* A model of flexmeasures_weather/utils/weather.py: the WeatherAPI        *)
(* normalizer (process_weatherapi_data) and the forecast assembler         *)
(* (save_forecasts_in_db) with its sensor resolver (get_weather_sensor).   *)
(*                                                                         *)
(* Times are epoch seconds.  A timezone-aware datetime is a record         *)
(* [epoch, tz]; a Python dict is a function whose DOMAIN is its key set; a *)
(* Python list is a sequence (index 0 of the code is index 1 here); a      *)
(* float quotient is the reduced fraction [num, den].                      *)
(***************************************************************************)
EXTENDS Integers, Sequences, FiniteSets, TLC

VARIABLES
    \* ---- process_weatherapi_data (one call)
    npc,              \* position in the call: "idle", "called", "returned"
    data,             \* argument: the forecast days, each with an "hour" list
    hour_no,          \* argument: index of the current hour
    converted,        \* the returned list
    \* ---- save_forecasts_in_db (one run)
    pc,               \* position in the run
    error,            \* the exception that ended the run, "" if none
    locations,        \* argument: the list of (lat, lon) tuples
    mapping,          \* the sensor mapping table (sensor_specs.mapping)
    loc_i,            \* number of locations the outer loop has entered
    weather_sensors,  \* dict sensor name -> Sensor | None, of the current location
    db_bound,         \* whether the local name db_forecasts is bound
    db_forecasts,     \* ordered dict Sensor -> list of TimedBelief
    now,              \* server_now() taken for the current location
    time_of_api_call, \* first element of call_api's result
    forecasts,        \* second element of call_api's result
    fc_i,             \* number of forecast hours of the current location entered
    fc_datetime,      \* event start of the current forecast hour
    data_source,      \* the data source the next belief will carry
    spec_j,           \* number of sensor specs handled in the current hour
    save_k,           \* number of keys the persistence loop has handled
    \* ---- what the run did to its collaborators (observations)
    api_log,          \* call_api calls that returned: [location, hours]
    lookups,          \* per location entered, per sensor name: what each lookup call found
    warnings,         \* number of current_app.logger.warning calls
    skew_warned,      \* whether the clock-skew warning was echoed for the current location
    saved             \* save_to_db calls: [loc_i, sensor, beliefs]

norm_vars == <<npc, data, hour_no, converted>>
run_vars == <<pc, error, locations, mapping, loc_i, weather_sensors, db_bound,
              db_forecasts, now, time_of_api_call, forecasts, fc_i, fc_datetime,
              data_source, spec_j, save_k, api_log, lookups, warnings,
              skew_warned, saved>>
vars == <<norm_vars, run_vars>>

\* ------------------------------------------------------------------ bounds
\* Longest list of locations a run is given.
MaxLocs == 2
\* Most hourly records in one provider response.
MaxHours == 2

\* ------------------------------------------------------- program constants
\* Hourly entries per forecast day (docstring of process_weatherapi_data).
HoursPerDay == 24
\* Length of the window process_weatherapi_data cuts (hour_no : hour_no + 48).
WindowLen == 48
\* Days the code reads: data[0], data[1], data[2].
NumDays == 3

\* ------------------------------------------------------------- arithmetic
Min(a, b) == IF a < b THEN a ELSE b
Abs(x) == IF x < 0 THEN -x ELSE x

RECURSIVE GCD(_, _)
GCD(a, b) == IF b = 0 THEN a ELSE GCD(b, a % b)

\* Python's true division of two non-negative integers, kept exact.
TrueDiv(n, d) == LET g == GCD(n, d) IN [num |-> n \div g, den |-> d \div g]

\* Python's seq[a:b] for 0 <= a <= b: both ends are clamped to the length.
Slice(seq, a, b) == SubSeq(seq, Min(a, Len(seq)) + 1, Min(b, Len(seq)))

\* ============================================================ normalizer

\* One raw WeatherAPI hourly entry; g is its position in the three days.
RawHour(day, k) ==
    LET g == day * HoursPerDay + k IN
    [time_epoch |-> day * 86400 + k * 3600,
     temp_c |-> 10 + (g % 7),
     feelslike_c |-> 9 + (g % 7),
     pressure_mb |-> 1000 + (g % 5),
     humidity |-> 40 + (g % 11),
     dewpoint_c |-> 3 + (g % 4),
     uv |-> g % 6,
     cloud |-> (g * 5) % 101,
     vis_km |-> 1 + (g % 10),
     wind_kph |-> (g * 9) % 37,
     wind_degree |-> (g * 15) % 360,
     gust_kph |-> (g * 18) % 73,
     condition |-> [code |-> 1000 + (g % 3),
                    text |-> IF g % 2 = 0 THEN <<"Partly", "cloudy">> ELSE <<"Sunny">>,
                    icon |-> "icon"],
     chance_of_rain |-> (g * 10) % 101]

\* A forecast day holding n hourly entries.
ForecastDay(day, n) == [hour |-> [k \in 1..n |-> RawHour(day, k - 1)]]

\* The responses the model feeds the normalizer: three days, each with 24
\* entries or one fewer.
DayLengths == {HoursPerDay, HoursPerDay - 1}
RawInputs ==
    {[d \in 1..NumDays |-> ForecastDay(d - 1, len[d])] : len \in [1..NumDays -> DayLengths]}

map_weather_api_to_owm(weather_api_data) ==
    [dt |-> weather_api_data.time_epoch,
     temp |-> weather_api_data.temp_c,
     feels_like |-> weather_api_data.feelslike_c,
     pressure |-> weather_api_data.pressure_mb,
     humidity |-> weather_api_data.humidity,
     dew_point |-> weather_api_data.dewpoint_c,
     uvi |-> weather_api_data.uv,
     clouds |-> weather_api_data.cloud,
     visibility |-> weather_api_data.vis_km * 1000,
     wind_speed |-> TrueDiv(weather_api_data.wind_kph * 10, 36),
     wind_deg |-> weather_api_data.wind_degree,
     wind_gust |-> TrueDiv(weather_api_data.gust_kph * 10, 36),
     weather |-> <<[id |-> weather_api_data.condition.code,
                    main |-> Head(weather_api_data.condition.text),
                    description |-> weather_api_data.condition.text,
                    icon |-> weather_api_data.condition.icon]>>,
     pop |-> TrueDiv(weather_api_data.chance_of_rain, 100)]

\* combined = first_day + second_day + third_day
Combined(d) == d[1].hour \o d[2].hour \o d[3].hour

\* A plausible slip: the window starts one hour late.
RelevantFromNextHour(combined, h) == Slice(combined, h + 1, h + 1 + WindowLen)

\* relevant = combined[hour_no : hour_no + 48]
Relevant(combined, h) == Slice(combined, h, h + WindowLen)

process_weatherapi_data(d, h) ==
    LET relevant == Relevant(Combined(d), h)
    IN [i \in 1..Len(relevant) |-> map_weather_api_to_owm(relevant[i])]

\* ============================================================== the run

\* ---- time (flexmeasures.utils.time_utils, datetime)
ServerTz == "server"
\* as_server_time(datetime.fromtimestamp(epoch, tz)): the same instant, in
\* the server's timezone.
as_server_time(epoch) == [epoch |-> epoch, tz |-> ServerTz]
\* .replace(second=0, microsecond=0)
TruncMinute(t) == [t EXCEPT !.epoch = t.epoch - (t.epoch % 60)]

\* ---- data sources (.modeling)
get_or_create_owm_data_source == "provider"
get_or_create_owm_data_source_for_derived_data == "derived"

\* ---- sensors (.locating, the host's Sensor)
None == [name |-> "None", location |-> <<0, 0>>, event_resolution |-> 0]
\* Event resolutions, in minutes, that a registered sensor may have.
Resolutions == {60, 15}
\* What the nearest-sensor lookup can return for a name at a location.
find_weather_sensor_by_location(location, sensor_name) ==
    {None} \cup {[name |-> sensor_name, location |-> location, event_resolution |-> r] :
                    r \in Resolutions}

\* ---- the mapping table (..sensor_specs)
SensorSpec(name, label, res) ==
    [fm_sensor_name |-> name, weather_sensor_name |-> label, event_resolution |-> res]
TemperatureSpec == SensorSpec("temperature", "temp", 60)
IrradianceSpec == SensorSpec("irradiance", "clouds", 60)
\* A second spec for the temperature sensor, with another resolution.
QuarterHourTemperatureSpec == SensorSpec("temperature", "temp", 15)
\* The tables a run may be given: two specs in either order, and a table
\* whose two specs name the same sensor.
MappingTables ==
    {<<TemperatureSpec, IrradianceSpec>>,
     <<IrradianceSpec, TemperatureSpec>>,
     <<TemperatureSpec, QuarterHourTemperatureSpec>>}

\* ---- inputs of a run
Locations == {<<52, 4>>, <<48, 11>>}
\* The lists of locations a run may be given, repeats included.  Nothing in
\* the run tells one location from the other, so a list starts with the first.
LocationLists ==
    {l \in UNION {[1..n -> Locations] : n \in 0..MaxLocs} : Len(l) > 0 => l[1] = <<52, 4>>}

\* One hourly record of a provider response, k hours after the current hour.
FullHour(k) == ("dt" :> (7200 + 3600 * k)) @@ ("temp" :> 20) @@ ("clouds" :> 50)
Without(fc, label) == [x \in DOMAIN fc \ {label} |-> fc[x]]
\* The hourly lists a provider may answer with: no hours at all, or MaxHours
\* hours that are complete, lack one label in one hour, or lack one label in
\* every hour.
Labels == {"temp", "clouds"}
FullList == [k \in 1..MaxHours |-> FullHour(k - 1)]
HourlyLists ==
    {<<>>, FullList}
    \cup {[FullList EXCEPT ![k] = Without(@, label)] : k \in 1..MaxHours, label \in Labels}
    \cup {[k \in 1..MaxHours |-> Without(FullList[k], label)] : label \in Labels}

\* The server clock when a location is entered, and the provider's own
\* report of the current time.
ServerNows == {as_server_time(7205)}
ProviderNows == {7205, 6500}

\* call_openweatherapi / call_weatherapi: the call time is the provider's
\* current time in server time, cut to the minute.  An answer whose clock
\* lags by more than ten minutes is modelled with the complete list only.
CallApiResults ==
    {[time_of_api_call |-> TruncMinute(as_server_time(c)), hourly |-> h] :
        c \in {7205}, h \in HourlyLists}
    \cup {[time_of_api_call |-> TruncMinute(as_server_time(c)), hourly |-> FullList] :
            c \in ProviderNows}

\* compute_irradiance (.radiating): an unevaluated physical model.
compute_irradiance(lat, lon, dt, cloud_coverage) ==
    [irradiance_at |-> <<lat, lon>>, time |-> dt, cloud_coverage |-> cloud_coverage]

\* ---- the ordered dict db_forecasts: a sequence of [sensor, beliefs]
Keys(db) == {db[k].sensor : k \in DOMAIN db}

\* if weather_sensor not in db_forecasts.keys(): db_forecasts[weather_sensor] = []
EnsureBatch(db, sensor) ==
    IF sensor \in Keys(db) THEN db ELSE Append(db, [sensor |-> sensor, beliefs |-> <<>>])

\* A plausible slip: the belief is built and dropped.
AppendBeliefDropped(db, sensor, belief) == db

\* db_forecasts[weather_sensor].append(belief)
AppendBelief(db, sensor, belief) ==
    [k \in DOMAIN db |->
        IF db[k].sensor = sensor
        THEN [db[k] EXCEPT !.beliefs = Append(@, belief)]
        ELSE db[k]]

\* A plausible slip: the event start is passed as the belief time too.
TimedBeliefAtEventStart(event_start, belief_time, event_value, sensor, source) ==
    [event_start |-> event_start, belief_time |-> event_start,
     event_value |-> event_value, sensor |-> sensor, source |-> source]

TimedBelief(event_start, belief_time, event_value, sensor, source) ==
    [event_start |-> event_start, belief_time |-> belief_time,
     event_value |-> event_value, sensor |-> sensor, source |-> source]

\* A plausible slip: the source is never switched.
SourceNeverSwitched(sensor_name, current) == current

\* The data source after the irradiance branch.
SourceAfterIrradianceBranch(sensor_name, current) ==
    IF sensor_name = "irradiance"
    THEN get_or_create_owm_data_source_for_derived_data
    ELSE current

\* The value after the irradiance branch.
ValueAfterIrradianceBranch(sensor_name, location, dt, fc_value) ==
    IF sensor_name = "irradiance"
    THEN compute_irradiance(location[1], location[2], dt, TrueDiv(fc_value, 100))
    ELSE fc_value

\* A plausible slip: the warning is dropped.
WarnNothing(count, label, dt) == count

\* current_app.logger.warning("No label '%s' in response data for time %s")
WarnMissingLabel(count, label, dt) == count + 1

\* A plausible slip: the lookup result is not stored in the cache.
get_weather_sensor_uncached(sensor_specs, cache, found) ==
    LET sensor_name == sensor_specs.fm_sensor_name
        hit == sensor_name \in DOMAIN cache
        weather_sensor == IF hit THEN cache[sensor_name] ELSE found
    IN [weather_sensors |-> cache,
        looked_up |-> ~hit,
        raises |-> /\ weather_sensor # None
                   /\ weather_sensor.event_resolution # sensor_specs.event_resolution,
        weather_sensor |-> weather_sensor]

\* A plausible slip: the resolution is not compared.
get_weather_sensor_unchecked(sensor_specs, cache, found) ==
    LET sensor_name == sensor_specs.fm_sensor_name
        hit == sensor_name \in DOMAIN cache
        weather_sensor == IF hit THEN cache[sensor_name] ELSE found
    IN [weather_sensors |-> IF hit THEN cache ELSE (sensor_name :> found) @@ cache,
        looked_up |-> ~hit,
        raises |-> FALSE,
        weather_sensor |-> weather_sensor]

\* get_weather_sensor: `found` is what find_weather_sensor_by_location
\* returns if it is called.  The result tells the new cache, whether the
\* lookup was called, whether the function raises, and the sensor.
get_weather_sensor(sensor_specs, cache, found) ==
    LET sensor_name == sensor_specs.fm_sensor_name
        hit == sensor_name \in DOMAIN cache
        weather_sensor == IF hit THEN cache[sensor_name] ELSE found
    IN [weather_sensors |-> IF hit THEN cache ELSE (sensor_name :> found) @@ cache,
        looked_up |-> ~hit,
        raises |-> /\ weather_sensor # None
                   /\ weather_sensor.event_resolution # sensor_specs.event_resolution,
        weather_sensor |-> weather_sensor]

\* ------------------------------------------------------------- the steps
\* pc names the statement the run executes next: "locations" is the head of
\* "for location in locations", "hours" the head of "for fc in forecasts",
\* "specs" the head of "for sensor_specs in mapping", "saving" the head of
\* "for sensor in db_forecasts.keys()".  A loop head that finds its list
\* exhausted falls through to the enclosing head within the same step.

Raise(e) == pc' = "raised" /\ error' = e

\* Where control is once j specs of hour number i (of n) are handled.
HeadAfterSpec(j, i, n) ==
    IF j < Len(mapping) THEN "specs" ELSE IF i < n THEN "hours" ELSE "locations"

\* The sensor names of the mapping tables.
SensorNames == {"temperature", "irradiance"}

\* The lookup log of a location just entered: no call for any name yet.
NoLookups == [name \in SensorNames |-> <<>>]

\* The log after one find_weather_sensor_by_location call at location number i.
RecordLookup(log, i, sensor_name, found) ==
    [log EXCEPT ![i][sensor_name] = Append(@, found)]

\* for location in locations: ... time_of_api_call, forecasts = call_api(...)
\* The loop enters the next location, rebinds the two dicts, reads the
\* clock and gets the provider's answer.
EnterLocation ==
    /\ pc = "locations"
    /\ loc_i < Len(locations)
    /\ \E t \in ServerNows, r \in CallApiResults :
        /\ now' = t
        /\ time_of_api_call' = r.time_of_api_call
        /\ forecasts' = r.hourly
        /\ skew_warned' = (Abs(t.epoch - r.time_of_api_call.epoch) > 10 * 60)
        /\ api_log' = Append(api_log, [location |-> locations[loc_i + 1],
                                       hours |-> [k \in DOMAIN r.hourly |-> r.hourly[k]["dt"]]])
        /\ pc' = IF Len(r.hourly) > 0 THEN "hours" ELSE "locations"
    /\ loc_i' = loc_i + 1
    /\ weather_sensors' = <<>>
    /\ db_bound' = TRUE
    /\ db_forecasts' = <<>>
    /\ fc_i' = 0
    /\ lookups' = Append(lookups, NoLookups)
    /\ UNCHANGED <<error, locations, mapping, fc_datetime, data_source, spec_j,
                   save_k, warnings, saved>>
    /\ UNCHANGED norm_vars

\* call_api raises: an invalid provider name, or a response that is not 200.
\* The two dicts of the location were already rebound.
CallApiRaises ==
    /\ pc = "locations"
    /\ loc_i < Len(locations)
    /\ loc_i' = loc_i + 1
    /\ weather_sensors' = <<>>
    /\ db_bound' = TRUE
    /\ db_forecasts' = <<>>
    /\ now' \in ServerNows
    /\ fc_i' = 0
    /\ lookups' = Append(lookups, NoLookups)
    /\ Raise("call_api")
    /\ UNCHANGED <<locations, mapping, time_of_api_call, forecasts,
                   fc_datetime, data_source, spec_j, save_k, api_log,
                   warnings, skew_warned, saved>>
    /\ UNCHANGED norm_vars

\* for fc in forecasts: fc_datetime = ...; data_source = get_or_create_owm_data_source()
EnterForecast ==
    /\ pc = "hours"
    /\ fc_i < Len(forecasts)
    /\ fc_i' = fc_i + 1
    /\ fc_datetime' = as_server_time(forecasts[fc_i + 1]["dt"])
    /\ data_source' = get_or_create_owm_data_source
    /\ spec_j' = 0
    /\ pc' = HeadAfterSpec(0, fc_i + 1, Len(forecasts))
    /\ UNCHANGED <<error, locations, mapping, loc_i, weather_sensors, db_bound,
                   db_forecasts, now, time_of_api_call, forecasts, save_k,
                   api_log, lookups, warnings, skew_warned, saved>>
    /\ UNCHANGED norm_vars

\* One pass of "for sensor_specs in mapping" for the current forecast hour.
HandleSensorSpec ==
    /\ pc = "specs"
    /\ spec_j < Len(mapping)
    /\ LET sensor_specs == mapping[spec_j + 1]
           sensor_name == sensor_specs.fm_sensor_name
           owm_response_label == sensor_specs.weather_sensor_name
           location == locations[loc_i]
           fc == forecasts[fc_i]
           next_head == HeadAfterSpec(spec_j + 1, fc_i, Len(forecasts))
       IN IF owm_response_label \in DOMAIN fc
          THEN \E found \in find_weather_sensor_by_location(location, sensor_name) :
                LET got == get_weather_sensor(sensor_specs, weather_sensors, found)
                    weather_sensor == got.weather_sensor
                    fc_value == ValueAfterIrradianceBranch(
                                    sensor_name, location, fc_datetime, fc[owm_response_label])
                    source == SourceAfterIrradianceBranch(sensor_name, data_source)
                IN /\ weather_sensors' = got.weather_sensors
                   /\ lookups' = IF got.looked_up
                                 THEN RecordLookup(lookups, loc_i, sensor_name, found)
                                 ELSE lookups
                   /\ IF got.raises
                      THEN /\ Raise("resolution")
                           /\ UNCHANGED <<db_forecasts, data_source, spec_j>>
                      ELSE /\ IF weather_sensor # None
                              THEN /\ db_forecasts' =
                                        AppendBelief(
                                            EnsureBatch(db_forecasts, weather_sensor),
                                            weather_sensor,
                                            TimedBelief(fc_datetime, now, fc_value,
                                                        weather_sensor, source))
                                   /\ data_source' = source
                              ELSE UNCHANGED <<db_forecasts, data_source>>
                           /\ spec_j' = spec_j + 1
                           /\ pc' = next_head
                           /\ UNCHANGED error
                   /\ UNCHANGED warnings
          ELSE /\ warnings' = WarnMissingLabel(warnings, owm_response_label, fc_datetime)
               /\ spec_j' = spec_j + 1
               /\ pc' = next_head
               /\ UNCHANGED <<error, weather_sensors, db_forecasts, data_source, lookups>>
    /\ UNCHANGED <<locations, mapping, loc_i, db_bound, now, time_of_api_call,
                   forecasts, fc_i, fc_datetime, save_k, api_log, skew_warned, saved>>
    /\ UNCHANGED norm_vars

\* The outer loop is exhausted: "for sensor in db_forecasts.keys()" reads the
\* name db_forecasts, which is bound only if the loop body ran.
EnterSaving ==
    /\ pc = "locations"
    /\ loc_i = Len(locations)
    /\ IF db_bound
       THEN /\ pc' = IF Len(db_forecasts) > 0 THEN "saving" ELSE "done"
            /\ save_k' = 0
            /\ UNCHANGED error
       ELSE Raise("UnboundLocalError") /\ UNCHANGED save_k
    /\ UNCHANGED <<locations, mapping, loc_i, weather_sensors, db_bound,
                   db_forecasts, now, time_of_api_call, forecasts, fc_i,
                   fc_datetime, data_source, spec_j, api_log, lookups, warnings,
                   skew_warned, saved>>
    /\ UNCHANGED norm_vars

\* One pass of the persistence loop: the empty-batch check, then save_to_db.
SaveBatch ==
    /\ pc = "saving"
    /\ save_k < Len(db_forecasts)
    /\ LET entry == db_forecasts[save_k + 1]
       IN IF Len(entry.beliefs) = 0
          THEN Raise("empty batch") /\ UNCHANGED <<save_k, saved>>
          ELSE /\ saved' = Append(saved, [loc_i |-> loc_i, sensor |-> entry.sensor,
                                          beliefs |-> entry.beliefs])
               /\ save_k' = save_k + 1
               /\ pc' = IF save_k + 1 < Len(db_forecasts) THEN "saving" ELSE "done"
               /\ UNCHANGED error
    /\ UNCHANGED <<locations, mapping, loc_i, weather_sensors, db_bound,
                   db_forecasts, now, time_of_api_call, forecasts, fc_i,
                   fc_datetime, data_source, spec_j, api_log, lookups, warnings,
                   skew_warned>>
    /\ UNCHANGED norm_vars

\* -------------------------------------------------------- specifications

NormIdle == npc = "idle" /\ data = <<>> /\ hour_no = 0 /\ converted = <<>>

RunLocals ==
    /\ error = ""
    /\ loc_i = 0
    /\ weather_sensors = <<>>
    /\ db_bound = FALSE
    /\ db_forecasts = <<>>
    /\ now = as_server_time(0)
    /\ time_of_api_call = as_server_time(0)
    /\ forecasts = <<>>
    /\ fc_i = 0
    /\ fc_datetime = as_server_time(0)
    /\ data_source = get_or_create_owm_data_source
    /\ spec_j = 0
    /\ save_k = 0
    /\ api_log = <<>>
    /\ lookups = <<>>
    /\ warnings = 0
    /\ skew_warned = FALSE
    /\ saved = <<>>

\* A run of save_forecasts_in_db on a list of locations and a mapping table.
Init ==
    /\ NormIdle
    /\ pc = "locations"
    /\ locations \in LocationLists
    /\ mapping \in MappingTables
    /\ RunLocals

Next ==
    \/ EnterLocation
    \/ CallApiRaises
    \/ EnterForecast
    \/ HandleSensorSpec
    \/ EnterSaving
    \/ SaveBatch

Spec == Init /\ [][Next]_vars

\* A call of process_weatherapi_data on a three-day response.
CallNormalizer ==
    /\ npc = "called"
    /\ converted' = process_weatherapi_data(data, hour_no)
    /\ npc' = "returned"
    /\ UNCHANGED <<data, hour_no>>
    /\ UNCHANGED run_vars

InitNorm ==
    /\ npc = "called"
    /\ data \in RawInputs
    /\ hour_no \in 0..(HoursPerDay - 1)
    /\ converted = <<>>
    /\ pc = "idle"
    /\ locations = <<>>
    /\ mapping = <<>>
    /\ RunLocals

NextNorm == CallNormalizer

SpecNorm == InitNorm /\ [][NextNorm]_vars

\* ================================================================ claims

\* Every belief held in the ordered dict db.
Beliefs(db) == UNION {{db[k].beliefs[n] : n \in DOMAIN db[k].beliefs} : k \in DOMAIN db}

\* The sensors the lookup found for location number i of the list.
ResolvedAt(i) ==
    UNION {{lookups[i][name][n] : n \in DOMAIN lookups[i][name]} : name \in SensorNames}
        \ {None}

\* How many lookup calls the run made for a sensor name at entry i of the list.
LookupsAtEntry(name, i) == Len(lookups[i][name])

\* How many lookup calls the run made for a sensor name and a location.
LookupsForPair(name, location) ==
    Cardinality({<<i, n>> \in (1..loc_i) \X (1..Len(mapping) * MaxHours) :
                    locations[i] = location /\ n <= LookupsAtEntry(name, i)})

\* Whether spec number j has been handled for hour number k of the current
\* location (a pass that raised counts: its lookup was made).
Handled(k, j) ==
    \/ k < fc_i
    \/ /\ k = fc_i
       /\ \/ j <= spec_j
          \/ pc = "raised" /\ error = "resolution" /\ j = spec_j + 1

\* Whether the current location has needed the sensor called name so far:
\* a handled spec with that name found its label in the hour's record.
NeededHere(name) ==
    \E k \in 1..fc_i, j \in 1..Len(mapping) :
        /\ Handled(k, j)
        /\ mapping[j].fm_sensor_name = name
        /\ mapping[j].weather_sensor_name \in DOMAIN forecasts[k]

\* C1 (as claimed): when the run completes, every sensor resolved at every
\* location of the list has exactly one batch passed to save_to_db, and that
\* batch lists one belief per forecast hour of the location, in order, with
\* event_start at the hour's timestamp.  Stated for the runs in which every
\* mapped field was present (no warning was issued).
C1_EveryLocationSaved ==
    (pc = "done" /\ warnings = 0) =>
        \A i \in 1..Len(locations) : \A s \in ResolvedAt(i) :
            LET batches == {k \in DOMAIN saved : saved[k].loc_i = i /\ saved[k].sensor = s}
            IN /\ Cardinality(batches) = 1
               /\ \A k \in batches :
                    [n \in DOMAIN saved[k].beliefs |-> saved[k].beliefs[n].event_start.epoch]
                        = api_log[i].hours

\* Hour number g (from 0) of the three days, read from the input itself.
GlobalHour(d, g) == d[(g \div HoursPerDay) + 1].hour[(g % HoursPerDay) + 1]

FullDays == \A d \in 1..NumDays : Len(data[d].hour) = HoursPerDay

\* C2: for three days of 24 entries and any hour index, the normalizer
\* returns 48 entries, entry i built from hour hour_no + i of the 72.
C2_WindowOf48 ==
    (npc = "returned" /\ FullDays) =>
        /\ Len(converted) = WindowLen
        /\ \A i \in 0..(WindowLen - 1) :
            /\ converted[i + 1] = map_weather_api_to_owm(GlobalHour(data, hour_no + i))
            /\ converted[i + 1].dt = GlobalHour(data, hour_no + i).time_epoch

\* C2 witness: a call at the last hour of the day returned, so the window
\* ends at the last of the 72 entries.
C2_Witness ==
    /\ npc = "returned"
    /\ FullDays
    /\ hour_no = HoursPerDay - 1
    /\ converted[WindowLen].dt = data[NumDays].hour[HoursPerDay - 1].time_epoch

\* C3: every belief built for the sensor named "irradiance" carries the
\* derived data source.
C3_IrradianceDerived ==
    \A b \in Beliefs(db_forecasts) :
        b.sensor.name = "irradiance" =>
            b.source = get_or_create_owm_data_source_for_derived_data

\* C3 witness: an irradiance belief has been built.
C3_Witness == \E b \in Beliefs(db_forecasts) : b.sensor.name = "irradiance"

\* C4 (as claimed): over the whole run the lookup is invoked exactly once
\* for each needed pair of sensor name and location.
C4_OncePerPair ==
    \A name \in SensorNames, location \in Locations :
        LET n == LookupsForPair(name, location)
        IN /\ n <= 1
           /\ (loc_i > 0 /\ locations[loc_i] = location /\ NeededHere(name)) => n = 1

\* C4 (amended): the lookup is invoked exactly once for each sensor name
\* that an entry of the location list needs, and never for a name the entry
\* does not need; an entry is one position of the list.
C4_OncePerListEntry ==
    \A name \in SensorNames :
        /\ \A i \in 1..loc_i :
            LookupsAtEntry(name, i) <= 1
        /\ loc_i > 0 =>
            (LookupsAtEntry(name, loc_i) = 1
                <=> NeededHere(name))

\* C4 witness: the same location was entered twice, and a sensor name was
\* looked up in both entries, once each.
C4_Witness ==
    /\ loc_i = 2
    /\ locations[1] = locations[2]
    /\ \E name \in SensorNames :
        \A i \in 1..2 : LookupsAtEntry(name, i) = 1

\* C5: a resolved sensor, fresh or cached, whose resolution differs from the
\* spec that asked for it ends the run with the resolution error, and no
\* batch has been passed to save_to_db by then.
C5_MismatchRaisesBeforeSaving ==
    /\ \A k \in 1..fc_i, j \in 1..Len(mapping) :
        (/\ Handled(k, j)
         /\ mapping[j].weather_sensor_name \in DOMAIN forecasts[k]
         /\ mapping[j].fm_sensor_name \in DOMAIN weather_sensors
         /\ weather_sensors[mapping[j].fm_sensor_name] # None
         /\ weather_sensors[mapping[j].fm_sensor_name].event_resolution
                # mapping[j].event_resolution)
        => (pc = "raised" /\ error = "resolution")
    /\ error = "resolution" => saved = <<>>

\* C5 witness: the run raised on a sensor of the second location, after the
\* first location had built beliefs, and nothing was saved.
C5_Witness ==
    /\ pc = "raised"
    /\ error = "resolution"
    /\ loc_i = 2
    /\ ResolvedAt(1) # {}
    /\ saved = <<>>

\* The spec about to be handled finds no label of its own in the hour.
MissingLabelNext ==
    /\ pc = "specs"
    /\ mapping[spec_j + 1].weather_sensor_name \notin DOMAIN forecasts[fc_i]

\* C6: handling a spec whose label the hour lacks builds no belief, makes no
\* lookup, issues one warning and goes on to the next spec without raising.
C6_MissingLabelSkipped ==
    [][MissingLabelNext =>
        /\ db_forecasts' = db_forecasts
        /\ lookups' = lookups
        /\ weather_sensors' = weather_sensors
        /\ warnings' = warnings + 1
        /\ spec_j' = spec_j + 1
        /\ pc' = HeadAfterSpec(spec_j + 1, fc_i, Len(forecasts))
        /\ error' = ""]_vars

\* C6 witness: a run that warned about a missing label went on, built
\* beliefs and completed.
C6_Witness == pc = "done" /\ warnings > 0 /\ Len(saved) > 0

\* C7 (as claimed): every belief's belief time is the call time call_api
\* returned for the location.
C7_BeliefTimeIsCallTime ==
    \A b \in Beliefs(db_forecasts) : b.belief_time = time_of_api_call

\* C7 (amended): every belief's belief time is the server time read for the
\* location just before call_api was called.
C7_BeliefTimeIsServerNow ==
    \A b \in Beliefs(db_forecasts) : b.belief_time = now

\* C7 witness: a belief was built at a location whose call time differs from
\* the server time.
C7_Witness == Beliefs(db_forecasts) # {} /\ now # time_of_api_call

\* C8: every batch of db_forecasts holds a belief, so does every batch
\* passed to save_to_db, and the empty-batch error is never raised.
C8_NoEmptyBatch ==
    /\ \A k \in DOMAIN db_forecasts : Len(db_forecasts[k].beliefs) >= 1
    /\ \A k \in DOMAIN saved : Len(saved[k].beliefs) >= 1
    /\ error # "empty batch"

\* C8 witness: the persistence loop has passed a batch to save_to_db.
C8_Witness == pc = "done" /\ Len(saved) > 0

\* C9 (as claimed): every belief built for a sensor other than "irradiance"
\* carries the provider's data source, whatever the order of the table.
C9_OthersKeepProviderSource ==
    \A b \in Beliefs(db_forecasts) :
        b.sensor.name # "irradiance" => b.source = get_or_create_owm_data_source

\* C10 (as claimed): with an empty list of locations the run makes no
\* provider call and no persistence call, and does not raise.
C10_EmptyListCompletes ==
    locations = <<>> => (pc # "raised" /\ api_log = <<>> /\ saved = <<>>)

====
